---- MODULE Spec2Model ----
(***************************************************************************)
(* Model of the scraper microservice's job controller (ScrapeManager in    *)
(* app/manager.py) and of the execution loop it launches                   *)
(* (scrape_players_async in app/scraper.py).                               *)
(*                                                                         *)
(* Every method of the manager that takes self.lock is one atomic action.  *)
(* The loop runs in worker threads; each thread is a slot of `loops` with  *)
(* its own program counter and its own captured parameter lists.  The      *)
(* calls the loop makes without the lock (write_row, the message and       *)
(* index stores) are atomic actions of their own.                          *)
(* Strings that the code transforms (player names, slugs) are sequences of *)
(* one-character strings, so that slugify is computed, not assumed.        *)
(*                                                                         *)
(* The bucket (app/gcs_io.py) is a map from blob names to their lines.     *)
(* Spec and SlugSpec run the controller without watching the bucket;       *)
(* WriterSpec follows one job's rows from write_row through the part       *)
(* blobs to the results routes of app/routes.py; RestartSpec follows the   *)
(* rows over one job after the other; ComposeSpec runs                     *)
(* compose_many over a finished job with many parts; BackoffSpec runs one  *)
(* call of _search_with_backoff attempt by attempt; UnitSpec runs the body *)
(* of one unit with the search taken attempt by attempt and submission by  *)
(* submission; CursorSpec runs                                             *)
(* the loop's iteration from a resume cursor; LockSpec splits the calls    *)
(* that hold self.lock into the acquisition and the release, to see what   *)
(* happens while the lock is held.                                         *)
(***************************************************************************)
EXTENDS Integers, Sequences, FiniteSets, TLC

\* ------------------------------------------------------------------ bounds
\* worker threads that may be alive at the same time
MaxLoops == 2
\* submissions one search yields at most
MaxItems == 1
\* distinct job identifiers (seconds of the clock) a behaviour may use
MaxJobs == 1
\* largest flush threshold the configuration may set
MaxChunkRows == 2
\* longest list of players of the slug assignment's specification
MaxPlayers == 3
\* largest part count a results request may bring a slug to
MaxParts == 3
\* most parts a slug has in the composer's specification
MaxStoredParts == 65
\* largest index a resume cursor holds
MaxCursor == 2

\* ------------------------------------------------------------------ inputs
\* player names, as character sequences
P_AB == <<"A", " ", "B">>
P_ab == <<"a", "-", "b">>
P_ab2 == <<"a", "-", "b", "-", "2">>
P_bang == <<" ", "!">>

\* the (players, subreddits) arguments a caller passes to start: two names
\* whose slugs collide with a repeated subreddit, a name without any letter
\* or digit with no subreddit given, and no player at all
StartInputs ==
    { << <<P_AB, P_ab>>, <<"nba", "nba">> >>,
      << <<P_bang>>, <<>> >>,
      << <<>>, <<"nba">> >> }

\* every list of at most MaxPlayers of the names, for the slug assignment
RECURSIVE ListsUpTo(_, _)
ListsUpTo(S, n) ==
    IF n = 0 THEN {<<>>}
    ELSE ListsUpTo(S, n - 1) \cup
         {Append(s, x) : s \in {t \in ListsUpTo(S, n - 1) : Len(t) = n - 1}, x \in S}

WideInputs == {<<ps, <<"nba">> >> : ps \in ListsUpTo({P_AB, P_ab, P_ab2}, MaxPlayers)}

\* ------------------------------------------------------------------ state
VARIABLES
    status,                 \* self.status
    message,                \* self.message
    _cancel,                \* self._cancel
    total_units,            \* self.total_units
    completed_units,        \* self.completed_units
    current_player_index,   \* self.current_player_index
    players,                \* self.players
    subreddits,             \* self.subreddits
    job_id,                 \* self.job_id (0: None); job_prefix is a function of it
    slug_map,               \* self.slug_map: player -> slug
    buffers,                \* self.buffers: slug -> rows pending
    part_counts,            \* self.part_counts: slug -> parts written
    loops,                  \* the worker threads started by start
    CHUNK_ROWS,             \* app.config.CHUNK_ROWS, the flush threshold
    credentials,            \* REDDIT_CLIENT_ID/SECRET/USER_AGENT are all set
    resp,                   \* what the controller or route call of the latest
                            \* step answered ("none" after a step of the loop)
    cancel_from,            \* status in which the pending cancel was accepted
    store,                  \* the bucket: objects is object name -> content
                            \* (lines); it is followed only where observed
    written,                \* slug -> rows handed to write_row since start,
                            \* where the bucket is observed
    fin,                    \* the request thread of a results route
    bo,                     \* one call of _search_with_backoff, step by step
    launched,               \* start has launched the loop of the current job
    lock,                   \* self.lock: the thread that holds it across steps
    cursor                  \* the resume cursor: what the loop was given, what
                            \* its callback has persisted, the units it started

jobFields ==
    << status, message, _cancel, total_units, completed_units,
       current_player_index, players, subreddits, job_id, slug_map, buffers,
       part_counts >>

\* the bucket, the route threads and the backoff call: what the controller
\* and the loop leave alone, start and write_row excepted
sideVars == << store, written, fin, bo, launched, lock, cursor >>

vars ==
    << status, message, _cancel, total_units, completed_units,
       current_player_index, players, subreddits, job_id, slug_map, buffers,
       part_counts, loops, CHUNK_ROWS, credentials, resp, cancel_from,
       store, written, fin, bo, launched, lock, cursor >>

\* ------------------------------------------------------------------ slugify
Alnum == {"A", "B", "a", "b", "0", "1", "2", "3", "4", "5", "6", "7", "8", "9"}

Whitespace == {" "}

Lower(c) == CASE c = "A" -> "a" [] c = "B" -> "b" [] OTHER -> c

RECURSIVE LStrip(_, _)
LStrip(s, chars) ==
    IF s # <<>> /\ Head(s) \in chars THEN LStrip(Tail(s), chars) ELSE s

RECURSIVE RStrip(_, _)
RStrip(s, chars) ==
    IF s # <<>> /\ s[Len(s)] \in chars
    THEN RStrip(SubSeq(s, 1, Len(s) - 1), chars)
    ELSE s

Strip(s, chars) == RStrip(LStrip(s, chars), chars)

\* re.sub(r"[^A-Za-z0-9]+", "-", s): each maximal run of other characters
\* becomes one "-"
RECURSIVE SubNonAlnum(_)
SubNonAlnum(s) ==
    IF s = <<>> THEN <<>>
    ELSE IF Head(s) \in Alnum THEN <<Head(s)>> \o SubNonAlnum(Tail(s))
    ELSE <<"-">> \o SubNonAlnum(LStrip(s, {c \in {s[i] : i \in DOMAIN s} : c \notin Alnum}))

slugify(name) ==
    LET t == Strip(SubNonAlnum(Strip(name, Whitespace)), {"-"})
        slug == [i \in DOMAIN t |-> Lower(t[i])]
    IN  IF slug = <<>> THEN <<"p", "l", "a", "y", "e", "r">> ELSE slug

DigitChar(d) == <<"0", "1", "2", "3", "4", "5", "6", "7", "8", "9">>[d + 1]

RECURSIVE Digits(_)
Digits(n) ==
    IF n < 10 THEN <<DigitChar(n)>> ELSE Digits(n \div 10) \o <<DigitChar(n % 10)>>

\* a bug's variant of UniqueSlug: a taken slug gets the next suffix without
\* looking whether that one is taken too
UniqueSlugOnce(base, slug, i, used) ==
    IF slug \in used THEN base \o <<"-">> \o Digits(i) ELSE slug

\* the while loop of start: base, then base-2, base-3, ... until unused
RECURSIVE UniqueSlug(_, _, _, _)
UniqueSlug(base, slug, i, used) ==
    IF slug \in used
    THEN UniqueSlug(base, base \o <<"-">> \o Digits(i), i + 1, used)
    ELSE slug

\* the for loop of start over the players, from position k on:
\* acc = [used |-> set of slugs, slug_map |-> player -> slug]
RECURSIVE AssignSlugs(_, _, _)
AssignSlugs(ps, k, acc) ==
    IF k > Len(ps) THEN acc
    ELSE LET p == ps[k]
             slug == UniqueSlug(slugify(p), slugify(p), 2, acc.used)
         IN  AssignSlugs(ps, k + 1,
                 [used |-> acc.used \cup {slug},
                  slug_map |-> [q \in DOMAIN acc.slug_map \cup {p} |->
                                   IF q = p THEN slug ELSE acc.slug_map[q]]])

\* the slug assignment of every list of players a caller passes
SlugsOf ==
    [ps \in {inp[1] : inp \in StartInputs \cup WideInputs} \cup {<<P_AB, P_bang>>} |->
        AssignSlugs(ps, 1, [used |-> {}, slug_map |-> <<>>])]

\* normalize subreddit list (dedupe, keep order), defaulting an empty one
RECURSIVE Dedupe(_, _)
Dedupe(s, seen) ==
    IF s = <<>> THEN <<>>
    ELSE IF Head(s) \in seen THEN Dedupe(Tail(s), seen)
    ELSE <<Head(s)>> \o Dedupe(Tail(s), seen \cup {Head(s)})

NormalizeSubreddits(subs) ==
    Dedupe(IF subs = <<>> THEN <<"nbadiscussion">> ELSE subs, {})

\* ------------------------------------------------------------------ storage
\* An object name is <<job, slug, kind, a, b>>: the job prefix, the slug and
\* "header", "part" (a: its number), "final", or "tmp" (a: stage, b: index of
\* a staged compose).  An object's content is the sequence of its lines.
HeaderBlob(job, slug) == <<job, slug, "header", 0, 0>>

PartBlob(job, slug, n) == <<job, slug, "part", n, 0>>

FinalBlob(job, slug) == <<job, slug, "final", 0, 0>>

TmpBlob(job, slug, stage, i) == <<job, slug, "tmp", stage, i>>

\* header_line, shaped like a row
HeaderLine == << <<>>, "header", 0 >>

\* The specifications of the controller do not look into the bucket: there
\* store.observed is false and the objects are not followed.  The
\* specifications of the writer and of the composer follow them, and keep
\* in calls the compose calls the latest compose_many made, in order.
NoBucket == [observed |-> FALSE, objects |-> <<>>, calls |-> <<>>]

EmptyBucket == [observed |-> TRUE, objects |-> <<>>, calls |-> <<>>]

\* gcs_io.exists
exists(st, name) == name \in DOMAIN st.objects

\* gcs_io.upload_text: the object is created or replaced
upload_text(st, name, text) ==
    IF st.observed
    THEN [st EXCEPT !.objects =
            [o \in DOMAIN st.objects \cup {name} |->
                IF o = name THEN text ELSE st.objects[o]]]
    ELSE st

\* the header uploads of start for the slugs `done`: a header that exists
\* is not written again
UploadHeaders(st, job, done) ==
    IF st.observed
    THEN [st EXCEPT !.objects =
            [o \in DOMAIN st.objects \cup {HeaderBlob(job, s) : s \in done} |->
                IF o \in DOMAIN st.objects THEN st.objects[o] ELSE <<HeaderLine>>]]
    ELSE st

\* a bug's variant of payload: the row appended last is not serialized
payload_without_last(buf) == SubSeq(buf, 1, Len(buf) - 1)

\* the payload _flush_chunk serializes: one line per buffered row, in the
\* order of the buffer, no header (a line is identified with its row)
payload(buf) == buf

\* the content of the objects `names`, one after the other
RECURSIVE Concat(_, _)
Concat(st, names) ==
    IF names = <<>> THEN <<>>
    ELSE st.objects[Head(names)] \o Concat(st, Tail(names))

\* gcs_io.compose: dest becomes the concatenation of the sources; the call
\* raises (ok false, nothing written) when a source does not exist
compose(st, sources, dest) ==
    LET called == IF st.observed
                  THEN [st EXCEPT !.calls =
                           Append(@, [sources |-> sources, dest |-> dest])]
                  ELSE st
    IN  IF \A i \in DOMAIN sources : exists(st, sources[i])
        THEN [st |-> upload_text(called, dest, Concat(st, sources)), ok |-> TRUE]
        ELSE [st |-> called, ok |-> FALSE]

\* the fan-in limit of one compose call
FanIn == 32

Min(a, b) == IF a < b THEN a ELSE b

\* a bug's variant of ComposeStage: the chunk is one source short
RECURSIVE ComposeStageShort(_, _, _, _, _, _, _)
ComposeStageShort(st, current, i, stage, outs, job, slug) ==
    IF i >= Len(current) THEN [st |-> st, outs |-> outs, ok |-> TRUE]
    ELSE LET chunk == SubSeq(current, i + 1, Min(i + FanIn - 1, Len(current)))
             tmp == TmpBlob(job, slug, stage, i \div FanIn)
             r == compose(st, chunk, tmp)
         IN  IF r.ok
             THEN ComposeStageShort(r.st, current, i + FanIn, stage, Append(outs, tmp), job, slug)
             ELSE [st |-> r.st, outs |-> outs, ok |-> FALSE]

\* the for loop of compose_many over range(0, len(current), 32), from offset
\* i on: each chunk of at most 32 sources is composed into a temporary object
RECURSIVE ComposeStage(_, _, _, _, _, _, _)
ComposeStage(st, current, i, stage, outs, job, slug) ==
    IF i >= Len(current) THEN [st |-> st, outs |-> outs, ok |-> TRUE]
    ELSE LET chunk == SubSeq(current, i + 1, Min(i + FanIn, Len(current)))
             tmp == TmpBlob(job, slug, stage, i \div FanIn)
             r == compose(st, chunk, tmp)
         IN  IF r.ok
             THEN ComposeStage(r.st, current, i + FanIn, stage, Append(outs, tmp), job, slug)
             ELSE [st |-> r.st, outs |-> outs, ok |-> FALSE]

\* the while loop of compose_many and the compose into dest that follows it
RECURSIVE ComposeStages(_, _, _, _, _, _)
ComposeStages(st, current, stage, dest, job, slug) ==
    IF Len(current) > FanIn
    THEN LET r == ComposeStage(st, current, 0, stage, <<>>, job, slug)
         IN  IF r.ok
             THEN ComposeStages(r.st, r.outs, stage + 1, dest, job, slug)
             ELSE [st |-> r.st, ok |-> FALSE]
    ELSE compose(st, current, dest)

\* a bug's variant of compose_many: one compose call whatever the number of
\* sources
compose_many_direct(st, sources, dest, job, slug) ==
    IF sources = <<>> THEN [st |-> upload_text(st, dest, <<>>), ok |-> TRUE]
    ELSE compose(st, sources, dest)

\* gcs_io.compose_many with tmp_prefix "<job prefix><slug>/_compose_tmp"
compose_many(st, sources, dest, job, slug) ==
    IF sources = <<>> THEN [st |-> upload_text(st, dest, <<>>), ok |-> TRUE]
    ELSE IF Len(sources) <= FanIn THEN compose(st, sources, dest)
    ELSE ComposeStages(st, sources, 0, dest, job, slug)

\* the source list compose_final_if_needed builds: header first, then the
\* parts 1 .. n in order
Sources(job, slug, n) ==
    <<HeaderBlob(job, slug)>> \o [i \in 1 .. n |-> PartBlob(job, slug, i)]

\* ------------------------------------------------------------------ threads
\* the request thread of a results route when no request is being served
IdleFin == [pc |-> "idle", slug |-> <<>>, final |-> <<>>, payload |-> <<>>, blob |-> <<>>]

\* no call of _search_with_backoff is being followed.  attempt is the local
\* of that name, tries counts the searches made, slept is the length of the
\* latest sleep, hint the retry-after value of the answer before it and pos
\* the number of submissions the search under way has yielded
IdleBackoff ==
    [pc |-> "idle", attempt |-> 0, tries |-> 0, slept |-> 0, hint |-> <<>>, pos |-> 0]

\* self.lock when no thread is inside a `with self.lock` block.  A block
\* that is one action takes and releases the lock within its step; the
\* holder is recorded for the blocks that are followed step by step, with
\* io telling that the holder is inside a call to the bucket.
Unlocked == [holder |-> "none", io |-> FALSE, pct |-> <<>>]

\* `with self.lock` can be entered: no other thread holds the lock
LockFree == lock.holder = "none"

\* scrape_players_async called without resume_cursor and without
\* update_resume_cursor, as ScrapeManager._worker calls it: given is the
\* resume_cursor argument (<<>>: None, else <<player_index,
\* subreddit_index>>), update whether a callback was passed, at what the
\* callback has persisted, started the units whose search was begun
NoCursor == [given |-> <<>>, update |-> FALSE, at |-> <<>>, started |-> <<>>]

LoopIds == DOMAIN loops

\* a thread slot: pc is the thread's position, players and subreddits are the
\* lists the loop was called with, (pi, si) is the unit it is at (from 1),
\* todo counts the submissions of the unit still to come (where the search
\* is followed step by step it is the place in the listing of the submission
\* the generator has yielded), and kept records
\* that mark_finished found the status cancelled or error; reddit is the
\* upstream client of the loop: "none" before asyncpraw.Reddit is made,
\* then "open", "closed" after reddit.close() and "reclosed" after another
DeadLoop == [pc |-> "dead", players |-> <<>>, subreddits |-> <<>>,
             pi |-> 0, si |-> 0, todo |-> 0, kept |-> FALSE, reddit |-> "none"]

Alive(l) == loops[l].pc # "dead"

\* the slot the next thread gets: the least one whose thread has exited
FreeSlot == CHOOSE l \in LoopIds : ~Alive(l) /\ \A m \in LoopIds : m < l => Alive(m)

\* a bug's variant of is_running: a job being cancelled no longer counts
is_running_not_cancelling == status \in {"running", "paused"}

\* ScrapeManager.is_running
is_running == status \in {"running", "paused", "cancelling"}

Init ==
    /\ status = "idle"
    /\ message = <<"">>
    /\ _cancel = FALSE
    /\ total_units = 0
    /\ completed_units = 0
    /\ current_player_index = 0
    /\ players = <<>>
    /\ subreddits = <<"nbadiscussion">>
    /\ job_id = 0
    /\ slug_map = <<>>
    /\ buffers = <<>>
    /\ part_counts = <<>>
    /\ loops = [l \in 1 .. MaxLoops |-> DeadLoop]
    /\ CHUNK_ROWS \in 1 .. MaxChunkRows
    /\ credentials \in BOOLEAN
    /\ resp = "none"
    /\ cancel_from = "none"
    /\ store = NoBucket
    /\ written = <<>>
    /\ fin = IdleFin
    /\ bo = IdleBackoff
    /\ launched = FALSE
    /\ lock = Unlocked
    /\ cursor = NoCursor


\* ------------------------------------------------------------------ lifecycle
\* a bug's variant of FreshBuffers: start without self.buffers.clear()
StaleBuffers(used) ==
    [s \in used |-> IF s \in DOMAIN buffers THEN buffers[s] ELSE <<>>]

\* the buffers after start: cleared, then one empty list per slug
FreshBuffers(used) == [s \in used |-> <<>>]

\* ScrapeManager.start.  The whole body runs under self.lock.  `uploaded` is
\* whether _ensure_bucket and every header upload succeeded; if one raises,
\* start leaves by that exception after the fields were set, with the
\* headers of the slugs `done` uploaded, and before the thread is made.  `id` is _now_job_id(): the clock's second, which is the
\* second of the previous job or a later one.
start(players_in, subreddits_in) ==
    /\ LockFree
    /\ IF is_running
       THEN /\ resp' = "busy"
            /\ UNCHANGED << jobFields, loops, CHUNK_ROWS, credentials, cancel_from, sideVars >>
       ELSE \E id \in {job_id, job_id + 1} \ {0}, uploaded \in BOOLEAN :
            LET a == SlugsOf[players_in]
            IN  /\ id <= MaxJobs
                /\ \E l \in LoopIds : ~Alive(l)
                /\ status' = "running"
                /\ message' = <<"Scrape started">>
                /\ _cancel' = FALSE
                /\ players' = players_in
                /\ subreddits' = NormalizeSubreddits(subreddits_in)
                /\ total_units' = Len(players') * Len(subreddits')
                /\ completed_units' = 0
                /\ current_player_index' = 0
                /\ job_id' = id
                /\ slug_map' = a.slug_map
                /\ buffers' = FreshBuffers(a.used)
                /\ part_counts' = [s \in a.used |-> 0]
                /\ cancel_from' = "none"
                /\ written' = IF store.observed THEN [s \in a.used |-> <<>>] ELSE written
                /\ IF uploaded
                   THEN /\ loops' = [loops EXCEPT ![FreeSlot] = [DeadLoop EXCEPT !.pc = "boot"]]
                        /\ store' = UploadHeaders(store, id, a.used)
                        /\ resp' = "accepted"
                        /\ launched' = TRUE
                   ELSE /\ UNCHANGED loops
                        /\ \E done \in SUBSET a.used :
                              /\ done # a.used \/ a.used = {}
                              /\ store' = UploadHeaders(store, id, done)
                        /\ resp' = "failed"
                        /\ launched' = FALSE
                /\ UNCHANGED << CHUNK_ROWS, credentials, fin, bo, lock, cursor >>

\* ScrapeManager.pause
pause ==
    /\ LockFree
    /\ IF status # "running"
       THEN /\ resp' = "not running"
            /\ UNCHANGED << jobFields, loops, CHUNK_ROWS, credentials, cancel_from, sideVars >>
       ELSE /\ status' = "paused"
            /\ message' = <<"Paused">>
            /\ resp' = "paused"
            /\ UNCHANGED << _cancel, total_units, completed_units, current_player_index,
                            players, subreddits, job_id, slug_map, buffers, part_counts,
                            loops, CHUNK_ROWS, credentials, cancel_from, sideVars >>

\* ScrapeManager.resume
resume ==
    /\ LockFree
    /\ IF status # "paused"
       THEN /\ resp' = "not paused"
            /\ UNCHANGED << jobFields, loops, CHUNK_ROWS, credentials, cancel_from, sideVars >>
       ELSE /\ status' = "running"
            /\ message' = <<"Resumed">>
            /\ resp' = "resumed"
            /\ UNCHANGED << _cancel, total_units, completed_units, current_player_index,
                            players, subreddits, job_id, slug_map, buffers, part_counts,
                            loops, CHUNK_ROWS, credentials, cancel_from, sideVars >>

\* a bug's variant of cancel: the guard is is_running
cancel_while_active ==
    /\ LockFree
    /\ IF status \notin {"running", "paused", "cancelling"}
       THEN /\ resp' = "no running job"
            /\ UNCHANGED << jobFields, loops, CHUNK_ROWS, credentials, cancel_from, sideVars >>
       ELSE /\ _cancel' = TRUE
            /\ status' = "cancelling"
            /\ message' = <<"Cancelling...">>
            /\ resp' = "cancelling"
            /\ cancel_from' = status
            /\ UNCHANGED << total_units, completed_units, current_player_index,
                            players, subreddits, job_id, slug_map, buffers, part_counts,
                            loops, CHUNK_ROWS, credentials, sideVars >>

\* ScrapeManager.cancel
cancel ==
    /\ LockFree
    /\ IF status \notin {"running", "paused"}
       THEN /\ resp' = "no running job"
            /\ UNCHANGED << jobFields, loops, CHUNK_ROWS, credentials, cancel_from, sideVars >>
       ELSE /\ _cancel' = TRUE
            /\ status' = "cancelling"
            /\ message' = <<"Cancelling...">>
            /\ resp' = "cancelling"
            /\ cancel_from' = status
            /\ UNCHANGED << total_units, completed_units, current_player_index,
                            players, subreddits, job_id, slug_map, buffers, part_counts,
                            loops, CHUNK_ROWS, credentials, sideVars >>

\* ------------------------------------------------------------------ the loop
Goto(l, pc) == loops' = [loops EXCEPT ![l].pc = pc]

\* ScrapeManager._worker up to and including the loop's set_total: the thread
\* reads self.players and self.subreddits, scrape_players_async checks the
\* credentials (raising before its try block when one is missing) and calls
\* set_total; range(len(players)) is empty for no players.
worker_begin(l) ==
    /\ loops[l].pc = "boot"
    /\ IF ~credentials
       THEN /\ Goto(l, "fail")
            /\ UNCHANGED total_units
       ELSE /\ LockFree
            /\ total_units' = Len(players) * Len(subreddits)
            /\ loops' = [loops EXCEPT ![l] =
                   [pc |-> IF Len(players) = 0 THEN "finish" ELSE "unit",
                    players |-> players, subreddits |-> subreddits,
                    pi |-> 1, si |-> 1, todo |-> 0, kept |-> FALSE,
                    reddit |-> "open"]]
    /\ UNCHANGED << status, message, _cancel, completed_units, current_player_index,
                    players, subreddits, job_id, slug_map, buffers, part_counts,
                    CHUNK_ROWS, credentials, cancel_from, sideVars >>
    /\ resp' = "none"

\* a bug's variant of Raise: the exception leaves the coroutine without the
\* finally block
RaiseSkippingFinally(l) == Goto(l, "fail")

\* an exception is raised inside the try block of scrape_players_async: the
\* finally block comes next
Raise(l) == Goto(l, "raise")

\* a bug's variant of LoopReturns: break instead of return in the loop over
\* the submissions, which falls through to increment_progress
LoopBreaks(l) == Goto(l, IF loops[l].pc = "item" THEN "incr" ELSE "close")

\* `return` of the loop when wait_if_paused_or_cancelled answers True
LoopReturns(l) == Goto(l, "close")

\* a bug's variant of wait_if_paused_or_cancelled: the cancel flag is looked
\* at before a unit only, not before a submission
wait_if_paused_or_cancelled_at_units(l) ==
    /\ loops[l].pc \in {"unit", "item"}
    /\ LockFree
    /\ IF _cancel /\ loops[l].pc = "unit"
       THEN /\ status' = "cancelled"
            /\ message' = <<"Cancelled">>
            /\ LoopReturns(l)
       ELSE /\ status # "paused"
            /\ Goto(l, IF loops[l].pc = "unit" THEN "search" ELSE "row")
            /\ UNCHANGED << status, message >>
    /\ UNCHANGED << _cancel, total_units, completed_units, current_player_index,
                    players, subreddits, job_id, slug_map, buffers, part_counts,
                    CHUNK_ROWS, credentials, cancel_from, sideVars >>
    /\ resp' = "none"

\* ScrapeManager.wait_if_paused_or_cancelled, called before a unit (pc "unit")
\* and before each submission (pc "item").  While the job is paused and not
\* cancelled the caller sleeps and polls again: no step.
wait_if_paused_or_cancelled(l) ==
    /\ loops[l].pc \in {"unit", "item"}
    /\ LockFree
    /\ IF _cancel
       THEN /\ status' = "cancelled"
            /\ message' = <<"Cancelled">>
            /\ LoopReturns(l)
       ELSE /\ status # "paused"
            /\ Goto(l, IF loops[l].pc = "unit" THEN "search" ELSE "row")
            /\ UNCHANGED << status, message >>
    /\ UNCHANGED << _cancel, total_units, completed_units, current_player_index,
                    players, subreddits, job_id, slug_map, buffers, part_counts,
                    CHUNK_ROWS, credentials, cancel_from, sideVars >>
    /\ resp' = "none"

\* The loop's stores of current_player_index and message for the unit, then
\* _search_with_backoff: the search yields n submissions, or the unit is
\* skipped on HTTP 403/404/451, or the failure is raised to the loop.
search(l) ==
    /\ loops[l].pc = "search"
    /\ current_player_index' = loops[l].pi - 1
    /\ \/ \E n \in 0 .. MaxItems :
             /\ message' = <<"Searching", loops[l].players[loops[l].pi],
                              loops[l].subreddits[loops[l].si]>>
             /\ loops' = [loops EXCEPT ![l].todo = n,
                                       ![l].pc = IF n = 0 THEN "incr" ELSE "item"]
       \/ /\ message' = <<"Skipping", loops[l].subreddits[loops[l].si]>>
          /\ loops' = [loops EXCEPT ![l].todo = 0, ![l].pc = "incr"]
       \/ /\ message' = <<"Searching", loops[l].players[loops[l].pi],
                           loops[l].subreddits[loops[l].si]>>
          /\ Raise(l)
    /\ UNCHANGED << status, _cancel, total_units, completed_units,
                    players, subreddits, job_id, slug_map, buffers, part_counts,
                    CHUNK_ROWS, credentials, cancel_from, sideVars >>
    /\ resp' = "none"

\* the row the loop builds for the submission it is at
Row(l) == << loops[l].players[loops[l].pi], loops[l].subreddits[loops[l].si],
             loops[l].todo >>

\* pc of the loop after one more submission of the unit was handled: the
\* next submission is asked of the generator where the search is followed
\* step by step (it is suspended at its yield), and is the next of the
\* submissions the search has yielded where the search is one step
AfterRow(l) ==
    IF bo.pc = "yielded"
    THEN [loops EXCEPT ![l].pc = "next"]
    ELSE [loops EXCEPT ![l].todo = @ - 1,
                       ![l].pc = IF loops[l].todo = 1 THEN "incr" ELSE "item"]

\* submission.load() and the comment fetch, then ScrapeManager.write_row and
\* _flush_chunk (no lock is taken).  slug_map[player] raises KeyError for a
\* player the current job does not have; an upload that raises leaves the
\* part count incremented and the buffer as it was.
write_row(l) ==
    /\ loops[l].pc = "row"
    /\ LET player == loops[l].players[loops[l].pi]
       IN  \/ /\ Raise(l)
              /\ UNCHANGED << buffers, part_counts, store, written >>
           \/ /\ player \notin DOMAIN slug_map
              /\ Raise(l)
              /\ UNCHANGED << buffers, part_counts, store, written >>
           \/ /\ player \in DOMAIN slug_map
              /\ LET slug == slug_map[player]
                     buf == Append(buffers[slug], Row(l))
                 IN  /\ written' = IF store.observed
                                    THEN [written EXCEPT ![slug] = Append(@, Row(l))]
                                    ELSE written
                     /\ IF Len(buf) >= CHUNK_ROWS
                        THEN /\ part_counts' = [part_counts EXCEPT ![slug] = @ + 1]
                             /\ \/ /\ store' = upload_text(store,
                                                PartBlob(job_id, slug, part_counts'[slug]),
                                                payload(buf))
                                   /\ buffers' = [buffers EXCEPT ![slug] = <<>>]
                                   /\ loops' = AfterRow(l)
                                \/ /\ buffers' = [buffers EXCEPT ![slug] = buf]
                                   /\ Raise(l)
                                   /\ UNCHANGED store
                        ELSE /\ buffers' = [buffers EXCEPT ![slug] = buf]
                             /\ loops' = AfterRow(l)
                             /\ UNCHANGED << part_counts, store >>
    /\ UNCHANGED << status, message, _cancel, total_units, completed_units,
                    current_player_index, players, subreddits, job_id, slug_map,
                    CHUNK_ROWS, credentials, cancel_from, fin, bo, launched, lock, cursor >>
    /\ resp' = "none"

\* the loop's position after the unit it is at: the next subreddit, else the
\* next player, else the end of both for loops
NextUnit(l) ==
    IF loops[l].si < Len(loops[l].subreddits)
    THEN [loops EXCEPT ![l].si = @ + 1, ![l].pc = "unit"]
    ELSE IF loops[l].pi < Len(loops[l].players)
    THEN [loops EXCEPT ![l].pi = @ + 1, ![l].si = 1, ![l].pc = "unit"]
    ELSE [loops EXCEPT ![l].pc = "finish"]

\* ScrapeManager.increment_progress, called when the unit's search is exhausted
increment_progress(l) ==
    /\ loops[l].pc = "incr"
    /\ LockFree
    /\ completed_units' = completed_units + 1
    /\ message' = <<"Completed", completed_units', total_units>>
    /\ loops' = NextUnit(l)
    /\ UNCHANGED << status, _cancel, total_units, current_player_index,
                    players, subreddits, job_id, slug_map, buffers, part_counts,
                    CHUNK_ROWS, credentials, cancel_from, sideVars >>
    /\ resp' = "none"

\* a bug's variant of mark_finished: without the check of the status
mark_finished_always(l) ==
    /\ loops[l].pc = "finish"
    /\ LockFree
    /\ status' = "finished"
    /\ message' = <<"Finished">>
    /\ loops' = [loops EXCEPT ![l].pc = "close",
                              ![l].kept = status \in {"cancelled", "error"}]
    /\ UNCHANGED << _cancel, total_units, completed_units, current_player_index,
                    players, subreddits, job_id, slug_map, buffers, part_counts,
                    CHUNK_ROWS, credentials, cancel_from, sideVars >>
    /\ resp' = "none"

\* ScrapeManager.mark_finished, called after the last unit
mark_finished(l) ==
    /\ loops[l].pc = "finish"
    /\ LockFree
    /\ IF status \notin {"cancelled", "error"}
       THEN /\ status' = "finished"
            /\ message' = <<"Finished">>
       ELSE UNCHANGED << status, message >>
    /\ loops' = [loops EXCEPT ![l].pc = "close",
                              ![l].kept = status \in {"cancelled", "error"}]
    /\ UNCHANGED << _cancel, total_units, completed_units, current_player_index,
                    players, subreddits, job_id, slug_map, buffers, part_counts,
                    CHUNK_ROWS, credentials, cancel_from, sideVars >>
    /\ resp' = "none"

\* what reddit.close() makes of the client
Closed(reddit) == IF reddit = "open" THEN "closed" ELSE "reclosed"

\* finally: await reddit.close(), reached by a return of the loop (pc
\* "close") or by an exception (pc "raise").  After a return the thread
\* ends, or close raises and that exception reaches _worker; after an
\* exception, that one or the one of close reaches _worker
close(l) ==
    /\ loops[l].pc \in {"close", "raise"}
    /\ \/ /\ loops[l].pc = "close"
          /\ loops' = [loops EXCEPT ![l] = DeadLoop]
       \/ loops' = [loops EXCEPT ![l].pc = "fail", ![l].reddit = Closed(@)]
    /\ UNCHANGED << jobFields, CHUNK_ROWS, credentials, cancel_from, sideVars >>
    /\ resp' = "none"

\* a bug's variant of worker_except: the exception ends the thread without
\* a trace in the job's state
worker_except_silent(l) ==
    /\ loops[l].pc = "fail"
    /\ LockFree
    /\ loops' = [loops EXCEPT ![l] = DeadLoop]
    /\ UNCHANGED << status, message, _cancel, total_units, completed_units,
                    current_player_index, players, subreddits, job_id, slug_map,
                    buffers, part_counts, CHUNK_ROWS, credentials, cancel_from,
                    sideVars >>
    /\ resp' = "none"

\* the except branch of ScrapeManager._worker
worker_except(l) ==
    /\ loops[l].pc = "fail"
    /\ LockFree
    /\ status' = "error"
    /\ message' = <<"Error">>
    /\ loops' = [loops EXCEPT ![l] = DeadLoop]
    /\ UNCHANGED << _cancel, total_units, completed_units, current_player_index,
                    players, subreddits, job_id, slug_map, buffers, part_counts,
                    CHUNK_ROWS, credentials, cancel_from, sideVars >>
    /\ resp' = "none"

\* ------------------------------------------------------------------ routes
\* what a request thread leaves alone besides the writer's state
routeFrame ==
    << status, message, _cancel, total_units, completed_units,
       current_player_index, players, subreddits, job_id, slug_map, loops,
       CHUNK_ROWS, credentials, cancel_from, written, bo, launched, lock, cursor >>

\* a bug's variant of download_player_csv: compose_final_if_needed without
\* the check that the final object exists
download_always_composes(slug) ==
    /\ fin.pc = "idle"
    /\ LockFree
    /\ IF job_id = 0
       THEN /\ resp' = "404"
            /\ UNCHANGED fin
       ELSE /\ resp' = "none"
            /\ fin' = [IdleFin EXCEPT !.pc = "flush", !.slug = slug,
                                      !.final = FinalBlob(job_id, slug)]
    /\ UNCHANGED << routeFrame, buffers, part_counts, store >>

\* routes.download_player_csv and routes.signed_url_for_player_csv up to the
\* exists check of compose_final_if_needed: 404 when there is no current
\* job; when the final object exists it is returned as it is and the route
\* answers with it
download_player_csv(slug) ==
    /\ fin.pc = "idle"
    /\ LockFree
    /\ IF job_id = 0
       THEN /\ resp' = "404"
            /\ UNCHANGED fin
       ELSE IF exists(store, FinalBlob(job_id, slug))
       THEN /\ resp' = "200"
            /\ UNCHANGED fin
       ELSE /\ resp' = "none"
            /\ fin' = [IdleFin EXCEPT !.pc = "flush", !.slug = slug,
                                      !.final = FinalBlob(job_id, slug)]
    /\ UNCHANGED << routeFrame, buffers, part_counts, store >>

\* _flush_chunk called by compose_final_if_needed, up to the part number:
\* self.buffers[slug] raises KeyError for a slug the job does not have (the
\* route answers 500); an empty buffer returns; else the buffered rows are
\* serialized and the part count is incremented
flush_begin ==
    /\ fin.pc = "flush"
    /\ IF fin.slug \notin DOMAIN buffers
       THEN /\ resp' = "500"
            /\ fin' = IdleFin
            /\ UNCHANGED part_counts
       ELSE IF buffers[fin.slug] = <<>>
       THEN /\ resp' = "none"
            /\ fin' = [fin EXCEPT !.pc = "compose"]
            /\ UNCHANGED part_counts
       ELSE /\ part_counts[fin.slug] < MaxParts
            /\ resp' = "none"
            /\ part_counts' = [part_counts EXCEPT ![fin.slug] = @ + 1]
            /\ fin' = [fin EXCEPT !.pc = "upload", !.payload = payload(buffers[fin.slug]),
                          !.blob = PartBlob(job_id, fin.slug, part_counts'[fin.slug])]
    /\ UNCHANGED << routeFrame, buffers, store >>

\* the rest of that _flush_chunk: the part is uploaded and the buffer of the
\* slug is replaced by an empty one, or the upload raises
flush_end ==
    /\ fin.pc = "upload"
    /\ \/ /\ store' = upload_text(store, fin.blob, fin.payload)
          /\ buffers' = [s \in DOMAIN buffers \cup {fin.slug} |->
                            IF s = fin.slug THEN <<>> ELSE buffers[s]]
          /\ fin' = [fin EXCEPT !.pc = "compose"]
          /\ resp' = "none"
       \/ /\ resp' = "500"
          /\ fin' = IdleFin
          /\ UNCHANGED << store, buffers >>
    /\ UNCHANGED << routeFrame, part_counts >>

\* the rest of compose_final_if_needed and of the route: the source list is
\* the header and the parts 1 .. part_counts.get(slug, 0) of the current job
\* prefix; compose_many writes the final object and the route answers with
\* it, or a compose raises and the route answers 500
compose_final_if_needed ==
    /\ fin.pc = "compose"
    /\ LET n == IF fin.slug \in DOMAIN part_counts THEN part_counts[fin.slug] ELSE 0
           r == compose_many([store EXCEPT !.calls = <<>>],
                             Sources(job_id, fin.slug, n), fin.final,
                             job_id, fin.slug)
       IN  \/ /\ store' = r.st
              /\ resp' = IF r.ok THEN "200" ELSE "500"
           \/ /\ resp' = "500"
              /\ UNCHANGED store
    /\ fin' = IdleFin
    /\ UNCHANGED << routeFrame, buffers, part_counts >>

\* the parameters of ScrapeManager.start
StartParams == {"players", "subreddits", "search_limit", "time_filter", "sort"}

\* the keyword arguments routes.start_scrape calls it with
RouteKeywords ==
    {"players", "subreddits", "search_limit", "time_filter", "sort", "resume_job_id"}

\* routes.start_scrape: a keyword the callee does not have makes the call
\* raise TypeError before the body of start runs, and the route answers 500;
\* else the route answers 202 (accepted), 409 (busy) or 500 (failed)
start_scrape(players_in, subreddits_in) ==
    IF RouteKeywords \subseteq StartParams
    THEN start(players_in, subreddits_in)
    ELSE /\ resp' = "500"
         /\ UNCHANGED << jobFields, loops, CHUNK_ROWS, credentials, cancel_from, sideVars >>

\* a call of start; a call that is rejected as busy does not look at its
\* arguments
StartCall ==
    IF is_running THEN start(<<>>, <<>>)
    ELSE \E inp \in StartInputs : start(inp[1], inp[2])

LoopStep(l) ==
    \/ worker_begin(l)
    \/ wait_if_paused_or_cancelled(l)
    \/ search(l)
    \/ write_row(l)
    \/ increment_progress(l)
    \/ mark_finished(l)
    \/ close(l)
    \/ worker_except(l)

Next ==
    \/ StartCall
    \/ pause
    \/ resume
    \/ cancel
    \/ \E l \in LoopIds : LoopStep(l)

Spec == Init /\ [][Next]_vars

\* the specification of the slug assignment: one thread, start called with
\* every list of at most MaxPlayers names
InitSlug ==
    /\ status = "idle"
    /\ message = <<"">>
    /\ _cancel = FALSE
    /\ total_units = 0
    /\ completed_units = 0
    /\ current_player_index = 0
    /\ players = <<>>
    /\ subreddits = <<"nbadiscussion">>
    /\ job_id = 0
    /\ slug_map = <<>>
    /\ buffers = <<>>
    /\ part_counts = <<>>
    /\ loops = [l \in {1} |-> DeadLoop]
    /\ CHUNK_ROWS = MaxChunkRows
    /\ credentials = TRUE
    /\ resp = "none"
    /\ cancel_from = "none"
    /\ store = NoBucket
    /\ written = <<>>
    /\ fin = IdleFin
    /\ bo = IdleBackoff
    /\ launched = FALSE
    /\ lock = Unlocked
    /\ cursor = NoCursor

StartCallWide ==
    IF is_running THEN start(<<>>, <<>>)
    ELSE \E inp \in WideInputs : start(inp[1], inp[2])

NextSlug ==
    \/ StartCallWide
    \/ pause
    \/ resume
    \/ cancel
    \/ \E l \in LoopIds : LoopStep(l)

SlugSpec == InitSlug /\ [][NextSlug]_vars

\* ------------------------------------------------------------------
\* the specification of the writer and of the results routes: one thread,
\* the bucket observed, players with two units each
WriterInputs == { << <<P_AB, P_bang>>, <<"nba", "nfl">> >> }

\* the slugs a client asks the results routes for: those of the players and
\* one no job has
RouteSlugs == {slugify(P_AB), slugify(P_bang), <<"z">>}

InitWriter ==
    /\ status = "idle"
    /\ message = <<"">>
    /\ _cancel = FALSE
    /\ total_units = 0
    /\ completed_units = 0
    /\ current_player_index = 0
    /\ players = <<>>
    /\ subreddits = <<"nbadiscussion">>
    /\ job_id = 0
    /\ slug_map = <<>>
    /\ buffers = <<>>
    /\ part_counts = <<>>
    /\ loops = [l \in {1} |-> DeadLoop]
    /\ CHUNK_ROWS \in 1 .. MaxChunkRows
    /\ credentials = TRUE
    /\ resp = "none"
    /\ cancel_from = "none"
    /\ store = EmptyBucket
    /\ written = <<>>
    /\ fin = IdleFin
    /\ bo = IdleBackoff
    /\ launched = FALSE
    /\ lock = Unlocked
    /\ cursor = NoCursor

\* the client of this specification starts one job
StartCallWriter ==
    IF is_running THEN start(<<>>, <<>>)
    ELSE /\ job_id = 0
         /\ \E inp \in WriterInputs : start(inp[1], inp[2])

StartScrapeCall == \E inp \in WriterInputs : start_scrape(inp[1], inp[2])

NextWriter ==
    \/ StartCallWriter
    \/ StartScrapeCall
    \/ \E l \in LoopIds : LoopStep(l)
    \/ \E slug \in RouteSlugs : download_player_csv(slug)
    \/ flush_begin
    \/ flush_end
    \/ compose_final_if_needed

WriterSpec == InitWriter /\ [][NextWriter]_vars

\* ------------------------------------------------------------------
\* the specification of restarts: the bucket observed, one player of two
\* units, no results request, and a client that starts a job whenever it
\* likes, the next one after the thread of the one before has exited
RestartInputs == { << <<P_AB>>, <<"nba", "nfl">> >> }

StartCallRestart ==
    IF is_running THEN start(<<>>, <<>>)
    ELSE \E inp \in RestartInputs : start(inp[1], inp[2])

NextRestart ==
    \/ StartCallRestart
    \/ \E l \in LoopIds : LoopStep(l)

RestartSpec == InitWriter /\ [][NextRestart]_vars

\* ------------------------------------------------------------------
\* the specification of the composer: a finished job of one player whose
\* slug has n parts of MaxChunkRows rows each, for every n up to
\* MaxStoredParts and for the two of DeepParts, and for the small n one
\* more row in its buffer; the
\* client asks for the final object
RowNo(k) == <<P_AB, "nba", k>>

\* the rows of part i
PartRows(i) == [k \in 1 .. MaxChunkRows |-> RowNo((i - 1) * MaxChunkRows + k)]

StoredParts(job, slug, n) ==
    [o \in {HeaderBlob(job, slug)} \cup {PartBlob(job, slug, i) : i \in 1 .. n} |->
        IF o = HeaderBlob(job, slug) THEN <<HeaderLine>> ELSE PartRows(o[4])]

\* the part counts with which the header and the parts are FanIn * FanIn
\* sources, which one stage of temporary objects brings down to FanIn, and
\* one source more, which takes two stages
DeepParts == {FanIn * FanIn - 1, FanIn * FanIn}

InitCompose ==
    /\ status = "finished"
    /\ message = <<"Finished">>
    /\ _cancel = FALSE
    /\ total_units = 1
    /\ completed_units = 1
    /\ current_player_index = 0
    /\ players = <<P_AB>>
    /\ subreddits = <<"nba">>
    /\ job_id = 1
    /\ slug_map = SlugsOf[<<P_AB>>].slug_map
    /\ \E n \in (0 .. MaxStoredParts) \cup DeepParts, rest \in 0 .. 1 :
          /\ rest = 1 => n < MaxParts
          /\ part_counts = [s \in {slugify(P_AB)} |-> n]
          /\ buffers = [s \in {slugify(P_AB)} |->
                           [k \in 1 .. rest |-> RowNo(n * MaxChunkRows + k)]]
          /\ store = [observed |-> TRUE, objects |-> StoredParts(1, slugify(P_AB), n),
                      calls |-> <<>>]
          /\ written = [s \in {slugify(P_AB)} |->
                           [k \in 1 .. (n * MaxChunkRows + rest) |-> RowNo(k)]]
    /\ loops = [l \in {1} |-> DeadLoop]
    /\ CHUNK_ROWS = MaxChunkRows
    /\ credentials = TRUE
    /\ resp = "none"
    /\ cancel_from = "none"
    /\ fin = IdleFin
    /\ bo = IdleBackoff
    /\ launched = TRUE
    /\ lock = Unlocked
    /\ cursor = NoCursor

\* where a direct call of compose_many with no source puts its result
EmptyDest == FinalBlob(0, <<>>)

\* compose_many called with an empty source list
compose_many_empty ==
    /\ ~exists(store, EmptyDest)
    /\ store' = compose_many([store EXCEPT !.calls = <<>>], <<>>, EmptyDest, 0, <<>>).st
    /\ resp' = "none"
    /\ UNCHANGED << routeFrame, buffers, part_counts, fin >>

NextCompose ==
    \/ download_player_csv(slugify(P_AB))
    \/ flush_begin
    \/ flush_end
    \/ compose_final_if_needed
    \/ compose_many_empty

ComposeSpec == InitCompose /\ [][NextCompose]_vars

\* ------------------------------------------------------------------
\* the specification of the backoff policy: one call of
\* _search_with_backoff after the other, followed attempt by attempt (the
\* action search of the loop is such a call taken as a whole)
MAX_RETRIES == 6

MAX_BACKOFF_SECONDS == 600

\* the retry-after header of a 429 answer: <<>> when there is none or it is
\* not a number, else <<seconds>>
RetryAfters == {<<>>} \cup {<<n>> : n \in {-5, 0, 30, 599, 600, 601, 10000}}

\* what the message of a RedditAPIException says about the wait: nothing,
\* or a number and a unit
WaitMessages ==
    { <<>> } \cup ({0, 9, 10, 11, 599, 600, 601} \X {"second", "minute", "hour"})

\* _parse_wait_seconds_from_msg; 0 stands for None, which the caller turns
\* into 0
_parse_wait_seconds_from_msg(msg) ==
    IF msg = <<>> THEN 0
    ELSE CASE msg[2] = "second" -> msg[1]
           [] msg[2] = "minute" -> msg[1] * 60
           [] msg[2] = "hour" -> msg[1] * 3600

Max(a, b) == IF a > b THEN a ELSE b

\* a bug's variant of SleepSeconds: the cap is not applied
SleepSecondsUncapped(seconds) == Max(0, seconds)

\* the seconds _sleep_with_status sleeps
SleepSeconds(seconds) == Max(0, Min(seconds, MAX_BACKOFF_SECONDS))

\* min(MAX_BACKOFF_SECONDS, 2**attempt + random.random()), in whole seconds
Backoff(attempt) == Min(MAX_BACKOFF_SECONDS, 2 ^ attempt)

InitBackoff ==
    /\ status = "running"
    /\ message = <<"Scrape started">>
    /\ _cancel = FALSE
    /\ total_units = 1
    /\ completed_units = 0
    /\ current_player_index = 0
    /\ players = <<P_AB>>
    /\ subreddits = <<"nba">>
    /\ job_id = 1
    /\ slug_map = SlugsOf[<<P_AB>>].slug_map
    /\ buffers = [s \in {slugify(P_AB)} |-> <<>>]
    /\ part_counts = [s \in {slugify(P_AB)} |-> 0]
    /\ loops = [l \in {1} |-> DeadLoop]
    /\ CHUNK_ROWS = MaxChunkRows
    /\ credentials = TRUE
    /\ resp = "none"
    /\ cancel_from = "none"
    /\ store = NoBucket
    /\ written = <<>>
    /\ fin = IdleFin
    /\ bo = IdleBackoff
    /\ launched = TRUE
    /\ lock = Unlocked
    /\ cursor = NoCursor

backoffFrame ==
    << status, _cancel, total_units, completed_units, current_player_index,
       players, subreddits, job_id, slug_map, buffers, part_counts, loops,
       CHUNK_ROWS, credentials, resp, cancel_from, store, written, fin,
       launched, lock, cursor >>

\* the loop calls _search_with_backoff for a unit: attempt = 0
search_call ==
    /\ bo.pc \in {"idle", "done", "skipped", "raised"}
    /\ bo' = [IdleBackoff EXCEPT !.pc = "try"]
    /\ UNCHANGED << message, backoffFrame >>

\* _sleep_with_status(seconds, reason), then attempt += 1 and the check
\* against MAX_RETRIES, whose raise ends the call
SleepThenRetry(seconds, reason, hint) ==
    LET secs == SleepSeconds(seconds)
    IN  /\ message' = IF secs > 0 THEN <<reason, secs>> ELSE message
        /\ bo' = [pc |-> IF bo.attempt + 1 >= MAX_RETRIES THEN "raised" ELSE "try",
                  attempt |-> bo.attempt + 1,
                  tries |-> bo.tries + 1,
                  slept |-> secs,
                  hint |-> hint,
                  pos |-> 0]

\* a bug's variant of RetryAfterSleep: the margin is left out
RetryAfterSleepNoMargin(retry_after, attempt) ==
    IF retry_after = <<>> THEN Backoff(attempt) ELSE retry_after[1]

\* the seconds asked of _sleep_with_status after a 429: the retry-after
\* header, or the exponential backoff when there is none, plus 1
RetryAfterSleep(retry_after, attempt) ==
    (IF retry_after = <<>> THEN Backoff(attempt) ELSE retry_after[1]) + 1

\* one pass of the while loop of _search_with_backoff: the search is made
\* and either completes, or is answered 429 (with or without a retry-after
\* header), or by another HTTP error (403, 404 and 451 skip the unit), or
\* the request fails, or the API reports a rate limit
search_attempt ==
    /\ bo.pc = "try"
    /\ \/ /\ bo' = [bo EXCEPT !.pc = "done", !.tries = @ + 1, !.hint = <<>>]
          /\ UNCHANGED message
       \/ \E retry_after \in RetryAfters :
             SleepThenRetry(RetryAfterSleep(retry_after, bo.attempt),
                            "429 Too Many Requests", retry_after)
       \/ \E code \in {403, 404, 451, 500, 503} :
             IF code \in {403, 404, 451}
             THEN /\ message' = <<"Skipping", subreddits[1], code>>
                  /\ bo' = [bo EXCEPT !.pc = "skipped", !.tries = @ + 1, !.hint = <<>>]
             ELSE SleepThenRetry(Backoff(bo.attempt), "HTTP", <<>>)
       \/ SleepThenRetry(Backoff(bo.attempt), "Network error", <<>>)
       \/ \E msg \in WaitMessages :
             LET wait == _parse_wait_seconds_from_msg(msg)
             IN  IF wait # 0 /\ wait <= MAX_BACKOFF_SECONDS
                 THEN SleepThenRetry(wait + 1, "API ratelimit", <<>>)
                 ELSE /\ bo' = [bo EXCEPT !.pc = "raised", !.tries = @ + 1, !.hint = <<>>]
                      /\ UNCHANGED message
    /\ UNCHANGED backoffFrame

NextBackoff ==
    \/ search_call
    \/ search_attempt

BackoffSpec == InitBackoff /\ [][NextBackoff]_vars

\* ------------------------------------------------------------------
\* the specification of a unit: the loop of a launched job of two players
\* and one subreddit, in which the call of _search_with_backoff the loop
\* makes for a unit is followed attempt by attempt and submission by
\* submission, with the rows handed to write_row recorded
UnitPlayers == <<P_AB, P_bang>>

InitUnit ==
    /\ status = "running"
    /\ message = <<"Scrape started">>
    /\ _cancel = FALSE
    /\ total_units = Len(UnitPlayers)
    /\ completed_units = 0
    /\ current_player_index = 0
    /\ players = UnitPlayers
    /\ subreddits = <<"nba">>
    /\ job_id = 1
    /\ slug_map = SlugsOf[UnitPlayers].slug_map
    /\ buffers = [s \in SlugsOf[UnitPlayers].used |-> <<>>]
    /\ part_counts = [s \in SlugsOf[UnitPlayers].used |-> 0]
    /\ loops = [l \in {1} |->
                  [pc |-> "unit", players |-> UnitPlayers, subreddits |-> <<"nba">>,
                   pi |-> 1, si |-> 1, todo |-> 0, kept |-> FALSE,
                   reddit |-> "open"]]
    /\ CHUNK_ROWS = MaxChunkRows
    /\ credentials = TRUE
    /\ resp = "none"
    /\ cancel_from = "none"
    /\ store = UploadHeaders(EmptyBucket, 1, SlugsOf[UnitPlayers].used)
    /\ written = [s \in SlugsOf[UnitPlayers].used |-> <<>>]
    /\ fin = IdleFin
    /\ bo = IdleBackoff
    /\ launched = TRUE
    /\ lock = Unlocked
    /\ cursor = NoCursor

\* the loop's stores of current_player_index and message for the unit and
\* its call of _search_with_backoff: attempt = 0
search_begin(l) ==
    /\ loops[l].pc = "search"
    /\ bo.pc = "idle"
    /\ current_player_index' = loops[l].pi - 1
    /\ message' = <<"Searching", loops[l].players[loops[l].pi],
                     loops[l].subreddits[loops[l].si]>>
    /\ bo' = [IdleBackoff EXCEPT !.pc = "try"]
    /\ Goto(l, "backoff")
    /\ resp' = "none"
    /\ UNCHANGED << status, _cancel, total_units, completed_units,
                    players, subreddits, job_id, slug_map, buffers, part_counts,
                    CHUNK_ROWS, credentials, cancel_from, store, written, fin,
                    launched, lock, cursor >>

\* `yield submission` inside the try block of _search_with_backoff: the
\* search under way hands its next submission to the loop and the generator
\* is suspended; a search made after a failure lists from the first
\* submission again
search_yield(l) ==
    /\ loops[l].pc = "backoff"
    /\ bo.pc = "try"
    /\ bo.pos < MaxItems
    /\ bo' = [bo EXCEPT !.pos = @ + 1, !.pc = "yielded"]
    /\ loops' = [loops EXCEPT ![l].todo = bo.pos + 1, ![l].pc = "item"]
    /\ resp' = "none"
    /\ UNCHANGED << jobFields, CHUNK_ROWS, credentials, cancel_from, store,
                    written, fin, launched, lock, cursor >>

\* the loop is done with a submission and asks the generator for the next:
\* the search under way goes on inside the try block
search_next(l) ==
    /\ loops[l].pc = "next"
    /\ bo.pc = "yielded"
    /\ bo' = [bo EXCEPT !.pc = "try"]
    /\ Goto(l, "backoff")
    /\ resp' = "none"
    /\ UNCHANGED << jobFields, CHUNK_ROWS, credentials, cancel_from, store,
                    written, fin, launched, lock, cursor >>

\* a bug's variant of search_return: a skipped unit is raised into the loop
search_return_raising(l) ==
    /\ loops[l].pc = "backoff"
    /\ bo.pc \in {"done", "skipped", "raised"}
    /\ bo' = IdleBackoff
    /\ CASE bo.pc = "done" ->
              loops' = [loops EXCEPT ![l].todo = 0, ![l].pc = "incr"]
         [] bo.pc \in {"skipped", "raised"} -> Raise(l)
    /\ resp' = "none"
    /\ UNCHANGED << jobFields, CHUNK_ROWS, credentials, cancel_from, store,
                    written, fin, launched, lock, cursor >>

\* the call of _search_with_backoff is over: the listing is exhausted and
\* the generator returned, or the unit was skipped and the generator
\* returned, or the call raised into the loop
search_return(l) ==
    /\ loops[l].pc = "backoff"
    /\ bo.pc \in {"done", "skipped", "raised"}
    /\ bo' = IdleBackoff
    /\ CASE bo.pc = "done" ->
              loops' = [loops EXCEPT ![l].todo = 0, ![l].pc = "incr"]
         [] bo.pc = "skipped" ->
              loops' = [loops EXCEPT ![l].todo = 0, ![l].pc = "incr"]
         [] bo.pc = "raised" -> Raise(l)
    /\ resp' = "none"
    /\ UNCHANGED << jobFields, CHUNK_ROWS, credentials, cancel_from, store,
                    written, fin, launched, lock, cursor >>

NextUnitSpec ==
    \/ \E l \in LoopIds :
          \/ wait_if_paused_or_cancelled(l)
          \/ search_begin(l)
          \/ search_yield(l)
          \/ search_next(l)
          \/ search_return(l)
          \/ write_row(l)
          \/ increment_progress(l)
          \/ mark_finished(l)
          \/ close(l)
          \/ worker_except(l)
    \/ search_attempt
    \/ pause
    \/ resume
    \/ cancel

UnitSpec == InitUnit /\ [][NextUnitSpec]_vars

\* ------------------------------------------------------------------
\* the specification of the resume cursor: scrape_players_async called for
\* a launched job of two players and two subreddits with a resume cursor
\* (or none) and with a callback that persists the cursor (or none)
CursorSubreddits == <<"nba", "nfl">>

\* the resume_cursor arguments: None, or player_index and subreddit_index,
\* which may lie at or past the end of their lists
ResumeCursors == {<<>>} \cup ((0 .. MaxCursor) \X (0 .. MaxCursor))

InitCursor ==
    /\ status = "running"
    /\ message = <<"Scrape started">>
    /\ _cancel = FALSE
    /\ total_units = Len(UnitPlayers) * Len(CursorSubreddits)
    /\ completed_units = 0
    /\ current_player_index = 0
    /\ players = UnitPlayers
    /\ subreddits = CursorSubreddits
    /\ job_id = 1
    /\ slug_map = SlugsOf[UnitPlayers].slug_map
    /\ buffers = [s \in SlugsOf[UnitPlayers].used |-> <<>>]
    /\ part_counts = [s \in SlugsOf[UnitPlayers].used |-> 0]
    /\ loops = [l \in {1} |-> [DeadLoop EXCEPT !.pc = "boot"]]
    /\ CHUNK_ROWS = MaxChunkRows
    /\ credentials = TRUE
    /\ resp = "none"
    /\ cancel_from = "none"
    /\ store = NoBucket
    /\ written = <<>>
    /\ fin = IdleFin
    /\ bo = IdleBackoff
    /\ launched = TRUE
    /\ lock = Unlocked
    /\ \E given \in ResumeCursors, update \in BOOLEAN :
          cursor = [given |-> given, update |-> update, at |-> <<>>, started |-> <<>>]

\* where the two for loops begin: range(start_pi, len(players)) and, for
\* the first player only, range(start_si, len(subreddits)); an empty inner
\* range passes on to the next player, whose range begins at 0
StartUnit(l, ps, subs, given) ==
    LET start_pi == IF given = <<>> THEN 0 ELSE given[1]
        start_si == IF given = <<>> THEN 0 ELSE given[2]
        base == [pc |-> "unit", players |-> ps, subreddits |-> subs,
                 pi |-> 1, si |-> 1, todo |-> 0, kept |-> FALSE,
                 reddit |-> "open"]
    IN  IF start_pi >= Len(ps) THEN [base EXCEPT !.pc = "finish"]
        ELSE IF start_si < Len(subs)
        THEN [base EXCEPT !.pi = start_pi + 1, !.si = start_si + 1]
        ELSE IF start_pi + 1 < Len(ps) /\ Len(subs) > 0
        THEN [base EXCEPT !.pi = start_pi + 2]
        ELSE [base EXCEPT !.pc = "finish"]

\* scrape_players_async up to the first unit, called with a resume cursor:
\* the check of the credentials, start_pi and start_si, set_total
scrape_begin(l) ==
    /\ loops[l].pc = "boot"
    /\ IF ~credentials
       THEN /\ Goto(l, "fail")
            /\ UNCHANGED total_units
       ELSE /\ LockFree
            /\ total_units' = Len(players) * Len(subreddits)
            /\ loops' = [loops EXCEPT ![l] =
                            StartUnit(l, players, subreddits, cursor.given)]
    /\ UNCHANGED << status, message, _cancel, completed_units, current_player_index,
                    players, subreddits, job_id, slug_map, buffers, part_counts,
                    CHUNK_ROWS, credentials, cancel_from, sideVars >>
    /\ resp' = "none"

\* the callback update_resume_cursor(pi, si): the pair is persisted
update_resume_cursor(cur, pi, si) == [cur EXCEPT !.at = <<pi, si>>]

\* a bug's variant of search_unit: the callback is called after the search
\* of the unit, that is before the search of the next one
search_unit_late(l) ==
    /\ loops[l].pc = "search"
    /\ current_player_index' = loops[l].pi - 1
    /\ LET unit == <<loops[l].pi - 1, loops[l].si - 1>>
           started == [cursor EXCEPT !.started = Append(@, unit)]
       IN  cursor' = IF cursor.update /\ cursor.started # <<>>
                     THEN update_resume_cursor(started,
                              cursor.started[Len(cursor.started)][1],
                              cursor.started[Len(cursor.started)][2])
                     ELSE started
    /\ \/ \E n \in 0 .. MaxItems :
             /\ message' = <<"Searching", loops[l].players[loops[l].pi],
                              loops[l].subreddits[loops[l].si]>>
             /\ loops' = [loops EXCEPT ![l].todo = n,
                                       ![l].pc = IF n = 0 THEN "incr" ELSE "item"]
       \/ /\ message' = <<"Skipping", loops[l].subreddits[loops[l].si]>>
          /\ loops' = [loops EXCEPT ![l].todo = 0, ![l].pc = "incr"]
       \/ /\ message' = <<"Searching", loops[l].players[loops[l].pi],
                           loops[l].subreddits[loops[l].si]>>
          /\ Raise(l)
    /\ UNCHANGED << status, _cancel, total_units, completed_units,
                    players, subreddits, job_id, slug_map, buffers, part_counts,
                    CHUNK_ROWS, credentials, cancel_from, store, written, fin,
                    bo, launched, lock >>
    /\ resp' = "none"

\* the loop's stores for the unit, the call of update_resume_cursor when a
\* callback was passed, then _search_with_backoff as in search
search_unit(l) ==
    /\ loops[l].pc = "search"
    /\ current_player_index' = loops[l].pi - 1
    /\ LET unit == <<loops[l].pi - 1, loops[l].si - 1>>
           started == [cursor EXCEPT !.started = Append(@, unit)]
       IN  cursor' = IF cursor.update
                     THEN update_resume_cursor(started, unit[1], unit[2])
                     ELSE started
    /\ \/ \E n \in 0 .. MaxItems :
             /\ message' = <<"Searching", loops[l].players[loops[l].pi],
                              loops[l].subreddits[loops[l].si]>>
             /\ loops' = [loops EXCEPT ![l].todo = n,
                                       ![l].pc = IF n = 0 THEN "incr" ELSE "item"]
       \/ /\ message' = <<"Skipping", loops[l].subreddits[loops[l].si]>>
          /\ loops' = [loops EXCEPT ![l].todo = 0, ![l].pc = "incr"]
       \/ /\ message' = <<"Searching", loops[l].players[loops[l].pi],
                           loops[l].subreddits[loops[l].si]>>
          /\ Raise(l)
    /\ UNCHANGED << status, _cancel, total_units, completed_units,
                    players, subreddits, job_id, slug_map, buffers, part_counts,
                    CHUNK_ROWS, credentials, cancel_from, store, written, fin,
                    bo, launched, lock >>
    /\ resp' = "none"

NextCursor ==
    \/ \E l \in LoopIds :
          \/ scrape_begin(l)
          \/ wait_if_paused_or_cancelled(l)
          \/ search_unit(l)
          \/ write_row(l)
          \/ increment_progress(l)
          \/ mark_finished(l)
          \/ close(l)
          \/ worker_except(l)
    \/ pause
    \/ resume
    \/ cancel

CursorSpec == InitCursor /\ [][NextCursor]_vars

\* ------------------------------------------------------------------
\* the specification of the lock: the blocks `with self.lock` that enclose
\* more than assignments are followed step by step, so that what the other
\* threads do while the lock is held is seen.  One thread slot.
InitLock ==
    /\ status = "idle"
    /\ message = <<"">>
    /\ _cancel = FALSE
    /\ total_units = 0
    /\ completed_units = 0
    /\ current_player_index = 0
    /\ players = <<>>
    /\ subreddits = <<"nbadiscussion">>
    /\ job_id = 0
    /\ slug_map = <<>>
    /\ buffers = <<>>
    /\ part_counts = <<>>
    /\ loops = [l \in {1} |-> DeadLoop]
    /\ CHUNK_ROWS \in 1 .. MaxChunkRows
    /\ credentials \in BOOLEAN
    /\ resp = "none"
    /\ cancel_from = "none"
    /\ store = NoBucket
    /\ written = <<>>
    /\ fin = IdleFin
    /\ bo = IdleBackoff
    /\ launched = FALSE
    /\ lock = Unlocked
    /\ cursor = NoCursor

\* ScrapeManager.start from `with self.lock` to _ensure_bucket: the busy
\* check and the assignments of the fields; the thread then goes on to the
\* header uploads inside the same block
start_begin(players_in, subreddits_in) ==
    /\ LockFree
    /\ IF is_running
       THEN /\ resp' = "busy"
            /\ UNCHANGED << jobFields, loops, CHUNK_ROWS, credentials, cancel_from, sideVars >>
       ELSE \E id \in {job_id, job_id + 1} \ {0} :
            LET a == SlugsOf[players_in]
            IN  /\ id <= MaxJobs
                /\ \E l \in LoopIds : ~Alive(l)
                /\ status' = "running"
                /\ message' = <<"Scrape started">>
                /\ _cancel' = FALSE
                /\ players' = players_in
                /\ subreddits' = NormalizeSubreddits(subreddits_in)
                /\ total_units' = Len(players') * Len(subreddits')
                /\ completed_units' = 0
                /\ current_player_index' = 0
                /\ job_id' = id
                /\ slug_map' = a.slug_map
                /\ buffers' = FreshBuffers(a.used)
                /\ part_counts' = [s \in a.used |-> 0]
                /\ cancel_from' = "none"
                /\ launched' = FALSE
                /\ lock' = [holder |-> "start", io |-> TRUE, pct |-> <<>>]
                /\ resp' = "none"
                /\ UNCHANGED << loops, CHUNK_ROWS, credentials, store, written, fin, bo,
                                cursor >>

\* the rest of start: the header uploads, the thread is made and started,
\* and the block is left; or an upload raises and the block is left by the
\* exception
start_end ==
    /\ lock.holder = "start"
    /\ LET used == SlugsOf[players].used
       IN  \/ /\ loops' = [loops EXCEPT ![FreeSlot] = [DeadLoop EXCEPT !.pc = "boot"]]
              /\ store' = UploadHeaders(store, job_id, used)
              /\ resp' = "accepted"
              /\ launched' = TRUE
           \/ /\ UNCHANGED loops
              /\ \E done \in SUBSET used :
                    /\ done # used \/ used = {}
                    /\ store' = UploadHeaders(store, job_id, done)
              /\ resp' = "failed"
              /\ launched' = FALSE
    /\ lock' = Unlocked
    /\ UNCHANGED << jobFields, CHUNK_ROWS, credentials, cancel_from, written, fin, bo,
                    cursor >>

\* routes.scrape_progress from `with m.lock` to the percentage, which reads
\* completed_units and total_units
scrape_progress_begin ==
    /\ LockFree
    /\ lock' = [holder |-> "progress", io |-> FALSE,
                pct |-> <<completed_units, total_units>>]
    /\ resp' = "none"
    /\ UNCHANGED << jobFields, loops, CHUNK_ROWS, credentials, cancel_from,
                    store, written, fin, bo, launched, cursor >>

\* the rest of scrape_progress: status, message, the counters and
\* current_player_index are read into the answer and the block is left
scrape_progress_end ==
    /\ lock.holder = "progress"
    /\ lock' = Unlocked
    /\ resp' = "200"
    /\ UNCHANGED << jobFields, loops, CHUNK_ROWS, credentials, cancel_from,
                    store, written, fin, bo, launched, cursor >>

StartCallLock ==
    IF is_running THEN start_begin(<<>>, <<>>)
    ELSE \E inp \in StartInputs : start_begin(inp[1], inp[2])

NextLock ==
    \/ StartCallLock
    \/ start_end
    \/ scrape_progress_begin
    \/ scrape_progress_end
    \/ pause
    \/ resume
    \/ cancel
    \/ \E l \in LoopIds : LoopStep(l)

LockSpec == InitLock /\ [][NextLock]_vars

\* ------------------------------------------------------------------ claims
Active == {"running", "paused", "cancelling"}

Startable == {"idle", "finished", "error", "cancelled"}

\* a step of start
StartStep == resp' \in {"busy", "accepted", "failed"}

\* a step in which start was admitted (it passed the busy check)
StartAdmitted == resp' \in {"accepted", "failed"}

\* C1: start called while status is running, paused or cancelling is rejected
\* with Busy, leaves every job field unchanged and launches no loop.
C1_BusyStartChangesNothing ==
    [][ (StartStep /\ status \in Active) =>
            (resp' = "busy" /\ UNCHANGED jobFields /\ UNCHANGED loops) ]_vars

\* a start was just rejected while the job is paused with a row buffered
C1_Witness ==
    /\ resp = "busy"
    /\ status = "paused"
    /\ \E s \in DOMAIN buffers : buffers[s] # <<>>

\* C2: start succeeds from idle, finished, error and cancelled and from no
\* other status; after it status is running, the cancel flag is false,
\* completed_units is 0, every slug of the new job has an empty buffer and
\* part count 0, and exactly one loop was launched.
C2_StartSucceeds ==
    [][ StartStep =>
          /\ (resp' = "busy") <=> (status \in Active)
          /\ (resp' # "busy") <=> (status \in Startable)
          /\ resp' = "accepted" =>
               /\ status' = "running"
               /\ _cancel' = FALSE
               /\ completed_units' = 0
               /\ \A p \in DOMAIN slug_map' : slug_map'[p] \in DOMAIN buffers'
               /\ DOMAIN part_counts' = DOMAIN buffers'
               /\ \A s \in DOMAIN buffers' : buffers'[s] = <<>> /\ part_counts'[s] = 0
               /\ \E l \in LoopIds :
                     /\ loops[l].pc = "dead"
                     /\ loops'[l].pc = "boot"
                     /\ \A m \in LoopIds \ {l} : loops'[m] = loops[m] ]_vars

\* a start was just accepted while the thread of the job before is still
\* releasing its session
C2_Witness ==
    /\ resp = "accepted"
    /\ status = "running"
    /\ \E l, m \in LoopIds : loops[l].pc = "boot" /\ loops[m].pc = "close"

\* C3: pause is accepted exactly when running, resume exactly when paused,
\* cancel exactly when running or paused; a rejected call leaves status,
\* message, the cancel flag and the progress counters unchanged.
C3_ControlsGuarded ==
    [][ /\ resp' \in {"paused", "not running"} =>
              ((resp' = "paused") <=> (status = "running"))
        /\ resp' \in {"resumed", "not paused"} =>
              ((resp' = "resumed") <=> (status = "paused"))
        /\ resp' \in {"cancelling", "no running job"} =>
              ((resp' = "cancelling") <=> (status \in {"running", "paused"}))
        /\ resp' \in {"not running", "not paused", "no running job"} =>
              UNCHANGED << status, message, _cancel, total_units, completed_units,
                           current_player_index >> ]_vars

\* a second cancel was just rejected while the first is pending
C3_Witness ==
    /\ resp = "no running job"
    /\ status = "cancelling"
    /\ _cancel

\* the edges of the state machine of the job status
Edges ==
    (Startable \X {"running"})
    \cup { <<"running", "paused">>, <<"paused", "running">>,
           <<"running", "cancelling">>, <<"paused", "cancelling">>,
           <<"cancelling", "cancelled">>, <<"running", "finished">> }
    \cup ((Active \cup Startable) \X {"error"})

\* C4: every change of the status follows an edge of the state machine; a
\* paused or cancelling job never moves directly to finished.  Stated so
\* that a failure does not count against it: Edges has the move to error
\* from every status, not only from the active ones.
C4_StatusFollowsEdges ==
    [][ status' # status => <<status, status'>> \in Edges ]_vars

\* a step of mark_finished by thread l
MarkFinishedStep(l) == loops[l].pc = "finish" /\ loops'[l].pc = "close"

\* C5: mark_finished sets status finished unless the status is cancelled or
\* error, and then it leaves status and message as they are.
C5_MarkFinishedSticky ==
    [][ \A l \in LoopIds : MarkFinishedStep(l) =>
            IF status \in {"cancelled", "error"}
            THEN UNCHANGED << status, message >>
            ELSE status' = "finished" /\ message' = <<"Finished">> ]_vars

\* mark_finished has found the status error and the status still is error
C5_Witness ==
    \E l \in LoopIds : loops[l].pc = "close" /\ loops[l].kept /\ status = "error"

\* C6: after an accepted cancel the status becomes cancelled and nothing
\* else.  Stated so that a failure of the loop (status error) does not count
\* against it: from cancelling the status moves only to cancelled or error.
C6_CancelEndsCancelled ==
    [][ status = "cancelling" => status' \in {"cancelling", "cancelled", "error"} ]_vars

\* C7: a cancel accepted while paused leads to cancelled without the status
\* being running in between, and a loop blocked in the pause wait writes no
\* row and completes no unit after it.  As in C6 a failure of the loop does
\* not count against it.
C7_CancelWhilePaused ==
    [][ (cancel_from = "paused" /\ status = "cancelling") =>
          /\ status' \in {"cancelling", "cancelled", "error"}
          /\ \A l \in LoopIds :
                (loops[l].pc \in {"unit", "item"} /\ loops'[l] # loops[l]) =>
                    UNCHANGED << buffers, part_counts, completed_units >> ]_vars

\* C8: total_units is |players| x |subreddits| of the stored lists, and
\* completed_units never exceeds total_units.
C8_UnitsBounded ==
    /\ job_id # 0 => total_units = Len(players) * Len(subreddits)
    /\ completed_units <= total_units

\* a step of increment_progress by thread l, all submissions of the unit done
IncrementStep(l) ==
    /\ loops[l].pc = "incr"
    /\ loops[l].todo = 0
    /\ loops'[l].pc \in {"unit", "finish"}

\* C9: within a job completed_units never decreases; it grows by exactly one,
\* in a step of increment_progress of a loop that has handed every row of its
\* unit to the writer or whose unit was skipped.
C9_CompletedUnitsMonotone ==
    [][ /\ completed_units' < completed_units => StartAdmitted
        /\ completed_units' > completed_units =>
              /\ completed_units' = completed_units + 1
              /\ \E l \in LoopIds : IncrementStep(l) ]_vars

\* both units of a job are completed, a row of each was written
C9_Witness ==
    /\ completed_units = 2
    /\ total_units = 2
    /\ \A s \in DOMAIN part_counts : part_counts[s] = 1

\* the slug of player p is base or base-k for the slug base of its name
SuffixedSlug(p) ==
    \/ slug_map[p] = slugify(p)
    \/ \E k \in 2 .. (MaxPlayers + 1) : slug_map[p] = slugify(p) \o <<"-">> \o Digits(k)

C11_BufferWithinThreshold ==
    \A s \in DOMAIN buffers : Len(buffers[s]) <= CHUNK_ROWS

\* a write_row of thread l that returned
WriteReturned(l) == loops[l].pc = "row" /\ loops'[l].pc \in {"item", "incr"}

\* C12: a write_row that completes threshold rows in the buffer of a slug
\* writes exactly one object, the part with the next number of the slug,
\* holding those rows in the order written; the part count of the slug grows
\* by one, its buffer is left empty, and the buffers and part counts of the
\* other slugs are unchanged.
C12_ThresholdRowsMakeOnePart ==
    [][ \A l \in LoopIds :
          LET s == slug_map[loops[l].players[loops[l].pi]]
              part == PartBlob(job_id, s, part_counts[s] + 1)
          IN  (WriteReturned(l) /\ Len(buffers[s]) = CHUNK_ROWS - 1) =>
                 /\ DOMAIN store'.objects = DOMAIN store.objects \cup {part}
                 /\ store'.objects[part] = Append(buffers[s], Row(l))
                 /\ \A o \in DOMAIN store.objects \ {part} :
                       store'.objects[o] = store.objects[o]
                 /\ part_counts' = [part_counts EXCEPT ![s] = @ + 1]
                 /\ buffers' = [buffers EXCEPT ![s] = <<>>] ]_vars

\* with threshold 2 the first part of one slug holds the two rows of its
\* player, and the other slug has one row buffered and no part
C12_Witness ==
    /\ CHUNK_ROWS = 2
    /\ PartBlob(1, slugify(P_AB), 1) \in DOMAIN store.objects
    /\ store.objects[PartBlob(1, slugify(P_AB), 1)] =
           << <<P_AB, "nba", 1>>, <<P_AB, "nfl", 1>> >>
    /\ buffers[slugify(P_AB)] = <<>>
    /\ part_counts[slugify(P_AB)] = 1
    /\ Len(buffers[slugify(P_bang)]) = 1
    /\ part_counts[slugify(P_bang)] = 0

\* C13: for every number n of parts the final object holds the header line
\* followed by the rows of part 1 .. part n in that order, whether composed
\* at once or in stages (a buffered row making the last part); an empty
\* source list gives an empty object.
C13_ComposeKeepsOrder ==
    /\ \A s \in DOMAIN part_counts :
          exists(store, FinalBlob(job_id, s)) =>
             store.objects[FinalBlob(job_id, s)] = <<HeaderLine>> \o written[s]
    /\ exists(store, EmptyDest) => store.objects[EmptyDest] = <<>>

\* 65 parts were composed in two stages: three temporary objects, the last
\* of two sources, then the final object of the header and every row
C13_Witness ==
    /\ part_counts[slugify(P_AB)] = 65
    /\ exists(store, FinalBlob(1, slugify(P_AB)))
    /\ Len(store.objects[FinalBlob(1, slugify(P_AB))]) = 1 + 65 * MaxChunkRows
    /\ exists(store, TmpBlob(1, slugify(P_AB), 0, 2))
    /\ Len(store.objects[TmpBlob(1, slugify(P_AB), 0, 2)]) = 2 * MaxChunkRows
    /\ exists(store, EmptyDest)

\* C14: a results request for a slug whose final object exists answers with
\* that object as it is: no flush, no part written, no compose, the part
\* counts and the buffers untouched.
C14_FinalizeIdempotent ==
    [][ \A slug \in RouteSlugs :
          (download_player_csv(slug) /\ job_id # 0
             /\ exists(store, FinalBlob(job_id, slug))) =>
                /\ resp' = "200"
                /\ UNCHANGED << store, buffers, part_counts, fin >> ]_vars

\* the final object of one slug was composed before the slug had a part, the
\* loop has written the first part since, and a second request for the slug
\* was just answered (no other final object exists)
C14_Witness ==
    /\ resp = "200"
    /\ fin.pc = "idle"
    /\ exists(store, FinalBlob(1, slugify(P_AB)))
    /\ store.objects[FinalBlob(1, slugify(P_AB))] = <<HeaderLine>>
    /\ exists(store, PartBlob(1, slugify(P_AB), 1))
    /\ ~exists(store, FinalBlob(1, slugify(P_bang)))

\* C15: once the loop has completed, the final object of every slug that has
\* one is the header line followed by all rows written for the slug in the
\* job, whenever the results requests were made.
C15_FinalHasAllRows ==
    (status = "finished" /\ \A l \in LoopIds : ~Alive(l)) =>
        \A s \in DOMAIN written :
            exists(store, FinalBlob(job_id, s)) =>
                store.objects[FinalBlob(job_id, s)] = <<HeaderLine>> \o written[s]

\* the slugs of the current job
JobSlugs == {slug_map[p] : p \in DOMAIN slug_map}

\* C18: the start route answers accepted and the job is running when no job
\* is active, and answers busy, changing nothing, when a job is running,
\* paused or cancelling.
C18_StartRouteAnswers ==
    [][ StartScrapeCall =>
          IF status \in Active
          THEN resp' = "busy" /\ UNCHANGED jobFields
          ELSE resp' = "accepted" /\ status' = "running" ]_vars

\* C20: a results request for a slug the current job does not have, or made
\* when there is no job, ends with the not-found answer, and no step of it
\* writes an object or changes the job state.
C20_UnknownSlugNotFound ==
    [][ /\ \A slug \in RouteSlugs :
             (download_player_csv(slug) /\ job_id = 0) =>
                 (resp' = "404" /\ UNCHANGED << jobFields, store, fin >>)
        /\ (fin.pc # "idle" /\ fin' # fin /\ fin.slug \notin JobSlugs) =>
             /\ UNCHANGED << jobFields, store >>
             /\ fin'.pc = "idle" => resp' = "404" ]_vars

\* C16: no sleep of the backoff policy is longer than MAX_BACKOFF_SECONDS,
\* and within one call the search is attempted at most MAX_RETRIES times:
\* the attempt that fails as the MAX_RETRIES-th ends the call by a raise.
C16_BackoffBounded ==
    /\ bo.slept >= 0
    /\ bo.slept <= MAX_BACKOFF_SECONDS
    /\ bo.tries <= MAX_RETRIES
    /\ bo.pc = "try" => bo.tries < MAX_RETRIES

\* the sixth attempt was answered 429 with a retry-after beyond the cap: the
\* call slept the cap and raised
C16_Witness ==
    /\ bo.pc = "raised"
    /\ bo.tries = MAX_RETRIES
    /\ bo.slept = MAX_BACKOFF_SECONDS
    /\ message = <<"429 Too Many Requests", MAX_BACKOFF_SECONDS>>

\* the units a loop has behind it when it is at unit (pi, si)
UnitsBefore(l) == (loops[l].pi - 1) * Len(loops[l].subreddits) + (loops[l].si - 1)

\* C17: in a launched job without cancel and without failure, whatever pause and
\* resume calls come in between, the loop running the lists of the job
\* completes the units one by one in order (when it completes a unit,
\* completed_units counts exactly the units before it), and when it sets
\* the status finished completed_units equals total_units.
C17_PauseResumeKeepsUnits ==
    [][ \A l \in LoopIds :
          (launched /\ loops[l].players = players
              /\ loops[l].subreddits = subreddits /\ ~_cancel) =>
             /\ IncrementStep(l) => completed_units = UnitsBefore(l)
             /\ (MarkFinishedStep(l) /\ status' = "finished") =>
                    completed_units = total_units ]_vars

\* C19: after an accepted start, the control sequence pause, resume, cancel
\* issued next by the client is accepted at every step, whatever the loop
\* does in between.  pause needs running, resume needs paused and cancel
\* needs running or paused, so the sequence is accepted in every
\* interleaving exactly when no step other than a client's call (the steps
\* that leave resp at "none") takes a launched job out of running or paused;
\* a failure of the job, which sets error, is not held against the claim.
C19_ControlSequenceAccepted ==
    [][ (launched /\ status \in {"running", "paused"} /\ resp' = "none") =>
            status' \in {status, "error"} ]_vars


\* C21: at most one execution loop is alive at any time (start is accepted
\* only when no thread of an earlier job is still executing).
C21_OneLoopAlive == Cardinality({l \in LoopIds : Alive(l)}) <= 1


\* C22: every mutation of job state is made holding the manager's lock, so
\* while the thread of a progress snapshot holds the lock none of status,
\* message, the progress counters, the current unit index, the buffers and
\* the part counts changes.
C22_SnapshotSeesNoWrite ==
    [][ lock.holder = "progress" =>
            UNCHANGED << status, message, total_units, completed_units,
                         current_player_index, buffers, part_counts >> ]_vars

\* C29: the manager's lock is never held while a call to the bucket or to
\* the upstream is in progress.
C29_NoIOUnderLock == lock.holder # "none" => ~lock.io


\* C23: an exception that escapes the execution loop (the thread is at
\* "fail") ends the thread with status error and the error message; from
\* status error the job leaves only by a start, and a start called in status
\* error is never rejected as busy.
C23_FailureSetsError ==
    [][ /\ \A l \in LoopIds :
              (loops[l].pc = "fail" /\ loops'[l].pc # "fail") =>
                  /\ status' = "error"
                  /\ message' = <<"Error">>
                  /\ loops'[l] = DeadLoop
        /\ status = "error" => (status' \in Startable \/ StartAdmitted)
        /\ (status = "error" /\ StartStep) => StartAdmitted ]_vars

\* a job whose loop failed: status error, no thread left
C23_Witness ==
    /\ launched
    /\ status = "error"
    /\ message = <<"Error">>
    /\ \A l \in LoopIds : ~Alive(l)


\* the compose calls of the latest compose_many wrote to pairwise different
\* objects
DistinctDests(calls) ==
    \A i, j \in DOMAIN calls : i # j => calls[i].dest # calls[j].dest

\* every temporary object a call reads was written by an earlier call
TmpWrittenBefore(calls) ==
    \A k \in DOMAIN calls : \A s \in DOMAIN calls[k].sources :
        calls[k].sources[s][3] = "tmp" =>
            \E i \in 1 .. (k - 1) : calls[i].dest = calls[k].sources[s]

\* C24: compose_many never calls compose with more than FanIn sources.  When
\* it has answered: with at most FanIn sources it made one call, from the
\* sources into the destination; with more it made calls of at most FanIn
\* sources into temporary objects and a last call into the destination, no
\* object was written twice (so no temporary object was overwritten while a
\* later call still had to read it), and every temporary object read had
\* been written before.
C24_ComposeFanIn ==
    /\ \A k \in DOMAIN store.calls :
          Len(store.calls[k].sources) \in 1 .. FanIn
    /\ (resp = "200" /\ job_id # 0) =>
          LET calls == store.calls
              s == slugify(P_AB)
              srcs == Sources(job_id, s, part_counts[s])
          IN  calls # <<>> =>
                /\ calls[Len(calls)].dest = FinalBlob(job_id, s)
                /\ \A k \in 1 .. (Len(calls) - 1) : calls[k].dest[3] = "tmp"
                /\ Len(srcs) <= FanIn =>
                      calls = << [sources |-> srcs, dest |-> FinalBlob(job_id, s)] >>
                /\ Len(srcs) > FanIn => Len(calls) > 1
                /\ DistinctDests(calls)
                /\ TmpWrittenBefore(calls)

\* compose_many has answered for FanIn * FanIn + 1 sources: two stages of
\* temporary objects
C24_Witness ==
    /\ resp = "200"
    /\ part_counts[slugify(P_AB)] = FanIn * FanIn
    /\ exists(store, FinalBlob(1, slugify(P_AB)))
    /\ exists(store, TmpBlob(1, slugify(P_AB), 1, 1))
    /\ Len(store.calls) = 33 + 2 + 1


\* C25: when the search is answered 403, 404 or 451 the call ends at once,
\* with no sleep and no further attempt; the loop then counts the unit in
\* completed_units and goes on to the next unit, and none of these steps
\* sets the status error.
C25_PermanentFailureSkips ==
    [][ /\ (bo.pc = "try" /\ bo'.pc = "skipped") =>
              /\ bo'.attempt = bo.attempt
              /\ bo'.slept = bo.slept
              /\ message'[1] = "Skipping"
              /\ UNCHANGED << status, loops >>
        /\ bo.pc = "skipped" =>
              /\ status' # "error"
              /\ \/ bo' = bo
                 \/ /\ bo' = IdleBackoff
                    /\ \A l \in LoopIds :
                          loops[l].pc = "backoff" =>
                             /\ loops'[l].pc = "incr"
                             /\ loops'[l].todo = 0
                    /\ UNCHANGED << status, completed_units >>
        /\ \A l \in LoopIds :
              (loops[l].pc = "incr" /\ loops'[l] # loops[l]) =>
                 /\ completed_units' = completed_units + 1
                 /\ loops' = NextUnit(l)
                 /\ UNCHANGED status ]_vars

\* the first unit was counted and the search of the second unit has just
\* been answered by a permanent failure, at its third attempt
C25_Witness ==
    /\ bo.pc = "skipped"
    /\ bo.tries = 3
    /\ loops[1].pc = "backoff"
    /\ loops[1].pi = 2
    /\ completed_units = 1
    /\ status = "running"


\* C26: when a search is answered 429 with a retry-after hint of h seconds,
\* the policy sleeps exactly h + 1 seconds and then tries again, for every
\* h (a wait of h seconds: h is not negative).
C26_HintSleptExactly ==
    [][ (bo.pc = "try" /\ bo'.tries = bo.tries + 1 /\ bo'.hint # <<>>
            /\ bo'.hint[1] >= 0) =>
            /\ bo'.slept = bo'.hint[1] + 1
            /\ bo'.pc = "try" ]_vars

\* C26, amended: the sleep is h + 1 brought into 0 .. MAX_BACKOFF_SECONDS
\* (so exactly h + 1 when that lies in the range), and the policy tries
\* again unless this was the MAX_RETRIES-th failed attempt of the call,
\* which ends the call by a raise.
C26_HintSleptWithinCap ==
    [][ (bo.pc = "try" /\ bo'.tries = bo.tries + 1 /\ bo'.hint # <<>>) =>
            LET h == bo'.hint[1]
            IN  /\ bo'.slept = IF h + 1 < 0 THEN 0
                               ELSE IF h + 1 > MAX_BACKOFF_SECONDS
                                    THEN MAX_BACKOFF_SECONDS
                                    ELSE h + 1
                /\ bo'.attempt = bo.attempt + 1
                /\ bo'.pc = IF bo'.attempt >= MAX_RETRIES THEN "raised" ELSE "try" ]_vars

\* a 429 with a hint of 599 seconds was followed by a sleep of 600 seconds,
\* and the next search is due
C26_Witness ==
    /\ bo.pc = "try"
    /\ bo.hint = <<599>>
    /\ bo.slept = 600
    /\ bo.attempt = 2


\* the units of a job with np players and ns subreddits in row-major order,
\* from 0
AllUnits(np, ns) == [k \in 1 .. (np * ns) |-> <<(k - 1) \div ns, (k - 1) % ns>>]

\* unit u is not before the cursor c (both <<player_index, subreddit_index>>)
NotBefore(u, c) == u[1] > c[1] \/ (u[1] = c[1] /\ u[2] >= c[2])

\* the units at or after the resume cursor, in row-major order
UnitsFrom(np, ns, given) ==
    LET IsDue(u) == given = <<>> \/ NotBefore(u, given)
    IN  SelectSeq(AllUnits(np, ns), IsDue)

\* C27: the units whose search the loop has begun are, in this order, the
\* first ones of the row-major list of the units at or after the resume
\* cursor (all units when no cursor was given): the order is strictly
\* increasing, it begins at the cursor and no unit before the cursor is
\* begun; and when a callback was passed, the persisted cursor is the unit
\* begun last, set before that unit's search.
C27_RowMajorFromCursor ==
    LET due == UnitsFrom(Len(players), Len(subreddits), cursor.given)
    IN  /\ Len(cursor.started) <= Len(due)
        /\ cursor.started = SubSeq(due, 1, Len(cursor.started))
        /\ cursor.update =>
              cursor.at = IF cursor.started = <<>> THEN <<>>
                          ELSE cursor.started[Len(cursor.started)]
        /\ \A l \in LoopIds :
              loops[l].pc \in {"finish", "close"} /\ loops[l].kept = FALSE
              /\ status = "finished" =>
                  cursor.started = due

\* resumed at player 0, subreddit 1: the loop has begun the three units from
\* there and finished
C27_Witness ==
    /\ cursor.given = <<0, 1>>
    /\ cursor.update
    /\ cursor.started = << <<0, 1>>, <<1, 0>>, <<1, 1>> >>
    /\ cursor.at = <<1, 1>>
    /\ status = "finished"


\* C28: once the loop has made its upstream client, the client is closed
\* exactly once on every way out of the loop: it is open at every position
\* inside the try block, it is never closed a second time, an exception
\* reaches _worker only with the client closed (or never made, when the
\* credentials are missing), and a thread that ends by returning ends in
\* the step that closes the client.
C28_SessionReleasedOnce ==
    [][ \A l \in LoopIds :
          /\ loops'[l].reddit # "reclosed"
          /\ loops'[l].pc \notin {"dead", "boot", "fail"} => loops'[l].reddit = "open"
          /\ (loops[l].pc # "fail" /\ loops'[l].pc = "fail") =>
                loops'[l].reddit = IF loops[l].pc = "boot" THEN "none" ELSE "closed"
          /\ (loops[l].pc # "dead" /\ loops'[l].pc = "dead") =>
                \/ loops[l].pc = "fail"
                \/ loops[l].pc = "close" /\ loops[l].reddit = "open" ]_vars

\* an exception of the second unit's search is on its way to _worker with
\* the client closed
C28_Witness ==
    \E l \in LoopIds :
        /\ loops[l].pc = "fail"
        /\ loops[l].reddit = "closed"
        /\ loops[l].pi = 2
        /\ completed_units = 1


\* the rows of the parts 1 .. n of a slug, in the order of the part numbers
RECURSIVE StoredRows(_, _, _)
StoredRows(job, slug, n) ==
    IF n = 0 THEN <<>>
    ELSE StoredRows(job, slug, n - 1) \o store.objects[PartBlob(job, slug, n)]

\* C30: a flush by finalize excludes the writer of the same slug, so no row
\* is dropped, none is in two parts and no part number is used twice or
\* skipped: whenever no flush is under way and the parts 1 .. part_counts of
\* a slug are all stored, these parts followed by the buffer are exactly
\* the rows written for the slug, in order.
C30_FlushExcludesWriter ==
    \A s \in DOMAIN written :
        (/\ fin.pc # "upload"
         /\ s \in DOMAIN part_counts
         /\ \A n \in 1 .. part_counts[s] : exists(store, PartBlob(job_id, s, n))) =>
            StoredRows(job_id, s, part_counts[s]) \o buffers[s] = written[s]


\* C35: within one unit a retry after a transient failure does not deliver
\* again the submissions the failed search had yielded: no submission of a
\* unit's listing is handed to write_row twice (each unit runs once here,
\* and a row names its player, its subreddit and its place in the listing).
C35_ItemsDeliveredOnce ==
    \A s \in DOMAIN written :
        \A i, j \in 1 .. Len(written[s]) :
            i # j => written[s][i] # written[s][j]


\* a cancel was accepted and the loop has not yet answered it
CancelPending == _cancel /\ status = "cancelling"

\* C31: after cancel is accepted and before the loop sets the status
\* cancelled, the loop lets no further submission through to write_row (it
\* writes at most the row it had in hand), begins no search of a further
\* unit, begins no backoff sleep and makes no retry: the flag is looked at
\* before every submission, before every unit and between the attempts.
C31_CancelStopsRetries ==
    [][ CancelPending =>
           /\ \A l \in LoopIds :
                 /\ loops'[l].pc = "row" => loops[l].pc = "row"
                 /\ loops'[l].pc = "search" => loops[l].pc = "search"
           /\ bo'.attempt <= bo.attempt
           /\ bo.attempt >= 1 => bo'.tries = bo.tries ]_vars

\* C31 as amended: after cancel is accepted and before the loop sets the
\* status cancelled, the loop lets no further submission through to
\* write_row and begins no search of a further unit, and every look at the
\* flag, before a submission and before a unit, sets the status cancelled
\* and returns; the attempts and sleeps of the call of _search_with_backoff
\* under way go on, at most MAX_RETRIES searches in all and at most
\* MAX_BACKOFF_SECONDS a sleep.
C31_CancelCheckedAtBoundaries ==
    [][ CancelPending =>
           /\ \A l \in LoopIds :
                 /\ loops'[l].pc = "row" => loops[l].pc = "row"
                 /\ loops'[l].pc = "search" => loops[l].pc = "search"
                 /\ (loops[l].pc \in {"unit", "item"} /\ loops'[l] # loops[l]) =>
                        /\ status' = "cancelled"
                        /\ loops'[l].pc = "close"
           /\ bo'.tries <= MAX_RETRIES
           /\ bo'.slept <= MAX_BACKOFF_SECONDS ]_vars

\* the cancel was accepted when the loop had written the first submission
\* of the first unit, or before; since then the search has failed five
\* times, the last sleep was the longest allowed and its message replaced
\* the controller's, and the sixth search is about to be made
C31_Witness ==
    /\ CancelPending
    /\ loops[1].pc = "backoff"
    /\ loops[1].pi = 1
    /\ bo.pc = "try"
    /\ bo.attempt = MAX_RETRIES - 1
    /\ message = <<"429 Too Many Requests", MAX_BACKOFF_SECONDS>>
    /\ Len(written[slugify(P_AB)]) = 1


\* C32: whenever the status is running, paused or cancelling, start has
\* launched the loop of the current job: a start that fails after it was
\* admitted does not leave an active status with no loop behind.
C32_ActiveJobHasLoop == is_running => launched


\* C33: for every slug the parts 1 .. part_counts[slug] of the current job
\* are all in the bucket, whenever no flush of that slug is between taking
\* its part number and its upload: the counter is never ahead of the stored
\* parts, an upload that failed included.
C33_PartsStoredUpToCount ==
    \A s \in DOMAIN part_counts :
        ~(fin.pc = "upload" /\ fin.slug = s) =>
            \A n \in 1 .. part_counts[s] : exists(store, PartBlob(job_id, s, n))


\* the row is a line of a part of slug s of job `job` in the bucket st
InStoredPart(st, job, s, row) ==
    \E o \in DOMAIN st.objects :
        /\ o[1] = job /\ o[2] = s /\ o[3] = "part"
        /\ \E k \in 1 .. Len(st.objects[o]) : st.objects[o][k] = row

\* C34: no row handed to write_row is discarded: a row that is in the
\* buffer of its slug is, after every step, still in that buffer or in a
\* stored part of its job; a start that follows the job does not drop it.
\* (Stated for the jobs in which nothing failed and for the starts that
\* are accepted.)
C34_NoRowDiscarded ==
    [][ (status # "error" /\ resp' # "failed") =>
        \A s \in DOMAIN buffers :
           \A i \in 1 .. Len(buffers[s]) :
               \/ /\ s \in DOMAIN buffers'
                  /\ \E j \in 1 .. Len(buffers'[s]) : buffers'[s][j] = buffers[s][i]
               \/ InStoredPart(store', job_id, s, buffers[s][i]) ]_vars


\* C36: once the status is cancelled or finished it changes only by a
\* start, which sets it to running: the except branch of the worker never
\* replaces a cancelled or finished outcome by error.
C36_OutcomeKept ==
    [][ (status = "cancelled" \/ status = "finished") =>
           (status' = status \/ status' = "running") ]_vars
====
